---------------------------- MODULE Spec2Model ----------------------------
(***************************************************************************)
(* A model of pypdftoimage.py: the two public functions convert and        *)
(* pdfinfo, their helpers, and the child processes they spawn.             *)
(*                                                                         *)
(* A Python str is a sequence of one-character strings; None is the record *)
(* None; a str, bool or int argument is a record tagged with its type.     *)
(* os.path is ntpath (the module is written for Windows: it appends .exe   *)
(* and uses subprocess.STARTUPINFO).                                       *)
(***************************************************************************)
EXTENDS Integers, Sequences, FiniteSets, TLC

(***************************************************************************)
(* Python values                                                           *)
(***************************************************************************)
None == [t |-> "none"]
PyStr(s) == [t |-> "str", v |-> s]
PyBool(b) == [t |-> "bool", v |-> b]
PyInt(n) == [t |-> "int", v |-> n]

\* bool(x) of an argument
Truthy(x) ==
    CASE x.t = "none" -> FALSE
      [] x.t = "str" -> x.v # <<>>
      [] x.t = "bool" -> x.v
      [] x.t = "int" -> x.v # 0

\* x == str(x): true of a str only
IsStr(x) == x.t = "str"

(***************************************************************************)
(* Characters and the str methods the module uses                          *)
(***************************************************************************)
Digits == <<"0", "1", "2", "3", "4", "5", "6", "7", "8", "9">>
DigitSet == {Digits[i] : i \in 1..10}
DigitVal(c) == (CHOOSE i \in 1..10 : Digits[i] = c) - 1
\* A string is a sequence of characters; an ASCII character is written as
\* itself and a character above U+007F by its code point name ("U+0085"),
\* so that every character is a distinct value whatever encoding the module
\* is read in.
\* the characters str.strip() takes for whitespace up to U+00FF: tab, line
\* feed, vertical tab, form feed, carriage return, U+001C to U+001F, space,
\* U+0085, U+00A0
Whitespace == {" ", "\t", "\n", "\r", "\f", "", "", "", "", "",
               "U+0085", "U+00A0"}
Quote == "\""
Backslash == "\\"
Seps == {Backslash, "/"}

RECURSIVE NatStr(_)
NatStr(n) == IF n < 10 THEN <<Digits[n + 1]>>
             ELSE NatStr(n \div 10) \o <<Digits[(n % 10) + 1]>>

\* str(n) of an int
Str(n) == IF n < 0 THEN <<"-">> \o NatStr(-n) ELSE NatStr(n)

RECURSIVE Zeros(_)
Zeros(k) == IF k <= 0 THEN <<>> ELSE <<"0">> \o Zeros(k - 1)

\* s.zfill(width): zeros go after a leading sign
Zfill(s, width) ==
    IF Len(s) >= width THEN s
    ELSE IF s # <<>> /\ Head(s) \in {"+", "-"}
         THEN <<Head(s)>> \o Zeros(width - Len(s)) \o Tail(s)
         ELSE Zeros(width - Len(s)) \o s

RECURSIVE LStrip(_, _)
LStrip(s, chars) == IF s # <<>> /\ Head(s) \in chars THEN LStrip(Tail(s), chars)
                    ELSE s

RECURSIVE RStrip(_, _)
RStrip(s, chars) ==
    IF s # <<>> /\ s[Len(s)] \in chars THEN RStrip(SubSeq(s, 1, Len(s) - 1), chars)
    ELSE s

\* s.strip() and s.strip(chars)
Strip(s, chars) == RStrip(LStrip(s, chars), chars)

\* s.rfind(c) for c in chars, 1-based; 0 when none (Python's -1)
RFind(s, chars) ==
    IF \E i \in 1..Len(s) : s[i] \in chars
    THEN CHOOSE i \in 1..Len(s) :
            s[i] \in chars /\ \A j \in (i + 1)..Len(s) : s[j] \notin chars
    ELSE 0

\* s.find(c, i) for c in chars, 1-based; 0 when none (Python's -1)
Find(s, i, chars) ==
    IF \E j \in i..Len(s) : s[j] \in chars
    THEN CHOOSE j \in i..Len(s) :
            s[j] \in chars /\ \A k \in i..(j - 1) : s[k] \notin chars
    ELSE 0

\* s.split(c): the list of the pieces between the occurrences of c
RECURSIVE SplitFrom(_, _, _)
SplitFrom(s, c, i) ==
    LET j == Find(s, i, {c})
    IN  IF j = 0 THEN <<SubSeq(s, i, Len(s))>>
        ELSE <<SubSeq(s, i, j - 1)>> \o SplitFrom(s, c, j + 1)

Split(s, c) == SplitFrom(s, c, 1)

\* c.join(parts)
RECURSIVE Join(_, _)
Join(c, parts) ==
    IF parts = <<>> THEN <<>>
    ELSE IF Len(parts) = 1 THEN parts[1]
    ELSE parts[1] \o c \o Join(c, Tail(parts))

\* sub in s
Contains(s, sub) ==
    \E i \in 1..(Len(s) - Len(sub) + 1) : SubSeq(s, i, i + Len(sub) - 1) = sub

(***************************************************************************)
(* ntpath: the os.path functions the module calls.  Paths with a drive     *)
(* letter are split at the colon; UNC prefixes are not among the inputs.   *)
(***************************************************************************)
\* the length of the drive prefix ("C:") of p
DriveLen(p) == IF Len(p) >= 2 /\ p[2] = ":" THEN 2 ELSE 0

\* os.path.split(p): (head, tail), tail the text after the last separator
SplitPath(p) ==
    LET d == SubSeq(p, 1, DriveLen(p))
        rest == SubSeq(p, DriveLen(p) + 1, Len(p))
        i == RFind(rest, Seps)
        head == SubSeq(rest, 1, i)
        stripped == RStrip(head, Seps)
    IN  [head |-> d \o (IF stripped # <<>> THEN stripped ELSE head),
         tail |-> SubSeq(rest, i + 1, Len(rest))]

Dirname(p) == SplitPath(p).head
Basename(p) == SplitPath(p).tail

\* os.path.splitext(p): (root, ext); leading dots of the name are no extension
SplitExt(p) ==
    LET sepIndex == RFind(p, Seps)
        dotIndex == RFind(p, {"."})
    IN  IF dotIndex > sepIndex
           /\ \E k \in (sepIndex + 1)..(dotIndex - 1) : p[k] # "."
        THEN [root |-> SubSeq(p, 1, dotIndex - 1), ext |-> SubSeq(p, dotIndex, Len(p))]
        ELSE [root |-> p, ext |-> <<>>]

\* os.path.join(a, b) for a relative b without drive
JoinPath(a, b) ==
    LET apath == SubSeq(a, DriveLen(a) + 1, Len(a))
    IN  IF apath # <<>> /\ apath[Len(apath)] \notin Seps
        THEN a \o <<Backslash>> \o b
        ELSE a \o b

(***************************************************************************)
(* str.format with keyword arguments fill and plain field names (no        *)
(* conversion, format spec, attribute or index inside a field).  The       *)
(* result is the formatted string or the exception raised.                 *)
(***************************************************************************)
NoError == "none"
Ok(s) == [err |-> NoError, out |-> s]
Raise(e) == [err |-> e, out |-> <<>>]

\* the index of the brace closing the field that starts at i; 0 when a
\* '{' or the end of the string comes first
FieldEnd(s, i) ==
    LET j == Find(s, i, {"{", "}"})
    IN  IF j = 0 \/ s[j] = "{" THEN 0 ELSE j

\* the value of one replacement field
Field(name, fill) ==
    IF \A k \in 1..Len(name) : name[k] \in DigitSet THEN Raise("IndexError")
    ELSE IF name \in DOMAIN fill THEN Ok(fill[name])
    ELSE Raise("KeyError")

\* the string from i on, literal text copied up to the next brace
RECURSIVE FormatFrom(_, _, _, _)
FormatFrom(s, i, acc, fill) ==
    LET b == Find(s, i, {"{", "}"})
        lit == acc \o SubSeq(s, i, b - 1)
    IN  IF b = 0 THEN Ok(acc \o SubSeq(s, i, Len(s)))
        ELSE IF s[b] = "{" THEN
            IF b = Len(s) THEN Raise("ValueError")
            ELSE IF s[b + 1] = "{" THEN FormatFrom(s, b + 2, Append(lit, "{"), fill)
            ELSE LET j == FieldEnd(s, b + 1)
                     f == Field(SubSeq(s, b + 1, j - 1), fill)
                 IN  IF j = 0 THEN Raise("ValueError")
                     ELSE IF f.err # NoError THEN f
                     ELSE FormatFrom(s, j + 1, lit \o f.out, fill)
        ELSE IF b < Len(s) /\ s[b + 1] = "}"
             THEN FormatFrom(s, b + 2, Append(lit, "}"), fill)
             ELSE Raise("ValueError")

Format(s, fill) == FormatFrom(s, 1, <<>>, fill)

(***************************************************************************)
(* Module constants and helpers                                            *)
(***************************************************************************)
PAGEKEY == <<"P", "a", "g", "e", "s">>
PageToken == <<"{", "p", "a", "g", "e", "}">>
PageName == <<"p", "a", "g", "e">>
FilepageName == <<"f", "i", "l", "e">> \o PageName
Tiff == <<"t", "i", "f", "f">>
Png == <<"p", "n", "g">>
Jpeg == <<"j", "p", "e", "g">>
Jpegcmyk == Jpeg \o <<"c", "m", "y", "k">>

\* EXT, as the set of its keys and the lookup
ExtKeys == {Tiff, Png, Jpeg, Jpegcmyk}
EXT(f) == CASE f = Tiff -> <<"t", "i", "f">>
            [] f = Png -> Png
            [] f \in {Jpeg, Jpegcmyk} -> <<"j", "p", "g">>

TIFFCOMPRESSION == {<<"p", "a", "c", "k", "b", "i", "t", "s">>, Jpeg,
                    <<"l", "z", "w">>, <<"d", "e", "f", "l", "a", "t", "e">>}
COMPSWITCH == <<"-">> \o Tiff \o <<"c", "o", "m", "p", "r", "e", "s", "s", "i", "o", "n">>
ADDLSWITCHES == << <<"-", "a", "a">>, <<"y", "e", "s">>,
                   <<"-", "a", "a", "V", "e", "c", "t", "o", "r">>, <<"y", "e", "s">>,
                   <<"-", "s", "i", "n", "g", "l", "e", "f", "i", "l", "e">>,
                   <<"-", "f">>, <<"{">> \o FilepageName \o <<"}">>,
                   <<"-", "l">>, <<"{">> \o FilepageName \o <<"}">> >>

\* _getquotepath(path)
GetQuotePath(path) == <<Quote>> \o Strip(path, {Quote}) \o <<Quote>>

\* _getcommandpath(name, poppler_bin_path)
GetCommandPath(name, poppler_bin_path) ==
    LET exe == Join(<<".">>, <<name, <<"e", "x", "e">> >>)
    IN  IF Truthy(poppler_bin_path)
        THEN GetQuotePath(JoinPath(poppler_bin_path.v, exe))
        ELSE exe

\* _stripextension(path): line 241 evaluates the unbound name page when the
\* file name holds no '{page}', which raises NameError
StripExtension(path) ==
    LET folder == Dirname(path)
        file == Basename(path)
        se == SplitExt(file)
        name == IF Contains(se.ext, PageToken) THEN se.root \o se.ext ELSE se.root
    IN  IF ~Contains(name, PageToken) THEN Raise("NameError")
        ELSE Ok(JoinPath(folder, name))

(***************************************************************************)
(* pdfinfo: the command, the decoding and the parsing of the tool output   *)
(***************************************************************************)
Space == <<" ">>
Dash(s) == <<"-">> \o s
Upw == Dash(<<"u", "p", "w">>)
Opw == Dash(<<"o", "p", "w">>)
Rawdates == Dash(<<"r", "a", "w", "d", "a", "t", "e", "s">>)
Pdfinfo == <<"p", "d", "f", "i", "n", "f", "o">>
Pdftoppm == <<"p", "d", "f", "t", "o", "p", "p", "m">>

\* PdfinfoSwitch testing the argument against None and not for truth: an
\* empty password then adds its switch
PdfinfoSwitchNotNone(switch, arg) ==
    IF arg.t # "none" /\ IsStr(arg) THEN <<switch, arg.v>>
    ELSE IF Truthy(arg) THEN <<switch>>
    ELSE <<>>

\* one turn of the loop of lines 197-200: what params is extended by
PdfinfoSwitch(switch, arg) ==
    IF Truthy(arg) /\ IsStr(arg) THEN <<switch, arg.v>>
    ELSE IF Truthy(arg) THEN <<switch>>
    ELSE <<>>

\* params of pdfinfo (lines 194-200)
PdfinfoParams(a) ==
    <<GetCommandPath(Pdfinfo, a.poppler_bin_path), GetQuotePath(a.source_path)>>
    \o PdfinfoSwitch(Upw, a.user_password)
    \o PdfinfoSwitch(Opw, a.owner_password)
    \o PdfinfoSwitch(Rawdates, a.raw_dates)

\* command of pdfinfo (line 201)
PdfinfoCommand(a) == Join(Space, PdfinfoParams(a))

\* a byte that is no valid UTF-8, as the tool output may hold
BadByte == "0xFF"

\* data.decode('utf8', 'ignore'): invalid bytes are dropped
Decode(data) == SelectSeq(data, LAMBDA b : b # BadByte)

\* ParseLine joining the pieces after the first colon with nothing between
\* them: the later colons of a value are lost
ParseLineColonsLost(i) ==
    LET parts == Split(i, ":")
    IN  [key |-> Strip(parts[1], Whitespace),
         val |-> Strip(Join(<<>>, Tail(parts)), Whitespace)]

\* the (key, value) pair of one line (line 205)
ParseLine(i) ==
    LET parts == Split(i, ":")
    IN  [key |-> Strip(parts[1], Whitespace),
         val |-> Strip(Join(<<":">>, Tail(parts)), Whitespace)]

EmptyDict == [k \in {} |-> <<>>]
DictSet(d, key, val) == [k \in DOMAIN d \cup {key} |-> IF k = key THEN val ELSE d[k]]

\* dict(pairs): a later pair overwrites an earlier one of the same key
RECURSIVE DictOf(_, _)
DictOf(pairs, d) ==
    IF pairs = <<>> THEN d
    ELSE DictOf(Tail(pairs), DictSet(d, Head(pairs).key, Head(pairs).val))

\* info of lines 205-207
ParseInfo(data) ==
    LET lines == Split(Decode(data), "\n")
        kept == SelectSeq(lines, LAMBDA i : Strip(i, Whitespace) # <<>>)
    IN  DictOf([n \in 1..Len(kept) |-> ParseLine(kept[n])], EmptyDict)

RECURSIVE DigitsVal(_, _)
DigitsVal(s, acc) == IF s = <<>> THEN acc
                     ELSE DigitsVal(Tail(s), 10 * acc + DigitVal(Head(s)))

\* the whitespace int() skips around a number: that of str.strip() without
\* U+001C to U+001F
IntWhitespace == Whitespace \ {"", "", "", ""}

\* int(s) of a str: surrounding whitespace, an optional sign, and digits
\* in groups that single underscores separate
IntOf(s) ==
    LET x == Strip(s, IntWhitespace)
        signed == x # <<>> /\ Head(x) \in {"+", "-"}
        body == IF signed THEN Tail(x) ELSE x
        groups == Split(body, "_")
    IN  IF \E g \in 1..Len(groups) :
              groups[g] = <<>> \/ \E k \in 1..Len(groups[g]) : groups[g][k] \notin DigitSet
        THEN [err |-> "ValueError", val |-> 0]
        ELSE [err |-> NoError,
              val |-> IF signed /\ Head(x) = "-" THEN -DigitsVal(Join(<<>>, groups), 0)
                      ELSE DigitsVal(Join(<<>>, groups), 0)]

MissingPages == "Exception: Unable to retrieve PDF pages"

\* HasPages looking for the key alone: an empty page count then reaches int()
HasPagesKeyOnly(info) == PAGEKEY \in DOMAIN info

\* info.get(PAGEKEY): truthy when the key is there with a non-empty value
HasPages(info) == PAGEKEY \in DOMAIN info /\ info[PAGEKEY] # <<>>

\* lines 208-210: the mapping returned, or the exception raised
PdfinfoResult(info) ==
    IF HasPages(info)
    THEN LET n == IntOf(info[PAGEKEY])
         IN  IF n.err # NoError THEN [err |-> n.err, info |-> EmptyDict]
             ELSE [err |-> NoError, info |-> DictSet(info, PAGEKEY, n.val)]
    ELSE [err |-> MissingPages, info |-> EmptyDict]

(***************************************************************************)
(* convert: the command template and the page label                        *)
(***************************************************************************)
\* ext of lines 142-145
ConvertExt(a) == IF a.img_format \in ExtKeys THEN EXT(a.img_format)
                 ELSE <<"p", "p", "m">>

\* params of convert (lines 138-151), the quoted paths given
ConvertParams(a, source_path, output_path) ==
    <<GetCommandPath(Pdftoppm, a.poppler_bin_path)>>
    \o <<Dash(<<"r">>), Str(a.dpi)>>
    \o (IF Truthy(a.user_password) THEN <<Upw, a.user_password.v>> ELSE <<>>)
    \o (IF Truthy(a.owner_password) THEN <<Opw, a.owner_password.v>> ELSE <<>>)
    \o (IF a.img_format \in ExtKeys THEN <<Dash(a.img_format)>> ELSE <<>>)
    \o (IF a.img_format = Tiff /\ IsStr(a.tiff_compression)
           /\ a.tiff_compression.v \in TIFFCOMPRESSION
        THEN <<COMPSWITCH, a.tiff_compression.v>>
        ELSE IF a.img_format = Tiff THEN <<COMPSWITCH, <<"n", "o", "n", "e">> >>
        ELSE <<>>)
    \o (IF a.grayscale THEN <<Dash(<<"g", "r", "a", "y">>)>> ELSE <<>>)
    \o ADDLSWITCHES
    \o <<source_path, output_path>>

\* PageNumber with the offset applied from 0 on only: -1 no longer starts
\* the numbering at zero
PageNumberOffsetFromZero(a, index) ==
    LET page == IF Truthy(a.page_num_offset) /\ a.page_num_offset.v >= 0
                THEN index + 1 + a.page_num_offset.v
                ELSE index + 1
    IN  IF Truthy(a.page_num_zfill) THEN Zfill(Str(page), a.page_num_zfill.v)
        ELSE Str(page)

\* page of lines 153-155, index counting from 0
PageNumber(a, index) ==
    LET page == IF Truthy(a.page_num_offset) /\ a.page_num_offset.v >= -1
                THEN index + 1 + a.page_num_offset.v
                ELSE index + 1
    IN  IF Truthy(a.page_num_zfill) THEN Zfill(Str(page), a.page_num_zfill.v)
        ELSE Str(page)

\* fill of lines 156-158
Fill(a, pagecount, index) ==
    [k \in {FilepageName, PageName} |->
        IF k = FilepageName THEN Str(index + 1)
        ELSE IF pagecount > 1 \/ a.page_num THEN PageNumber(a, index)
        ELSE <<>>]

\* the path appended by lines 161-162
ConvertedPath(output_path, fill, ext) ==
    Join(<<".">>, <<Strip(Format(output_path, fill).out, {Quote}), ext>>)

\* ConvertOnRaise for a convert that swallowed the exception and went on
\* to its loop with no page count
ConvertOnRaiseSwallowed(e) == [pc |-> "loop", err |-> NoError]

\* convert does not catch what pdfinfo raises (lines 134-135): the
\* exception leaves convert as it is
ConvertOnRaise(e) == [pc |-> "raised", err |-> e]

(***************************************************************************)
(* The inputs: argument values and tool outputs                            *)
(***************************************************************************)
\* a.pdf
SrcPlain == <<"a", ".", "p", "d", "f">>

\* a b.pdf, given in quotes
SrcQuoted == <<"\"", "a", " ", "b", ".", "p", "d", "f", "\"">>

\* a{page}.pdf
SrcPageToken == <<"a", "{", "p", "a", "g", "e", "}", ".", "p", "d", "f">>

\* a{x}.pdf
SrcField == <<"a", "{", "x", "}", ".", "p", "d", "f">>

\* a}.pdf
SrcBrace == <<"a", "}", ".", "p", "d", "f">>

\* o{page}
PrefixToken == <<"o", "{", "p", "a", "g", "e", "}">>

\* o
PrefixBare == <<"o">>

\* o.tif
PrefixExt == <<"o", ".", "t", "i", "f">>

\* {page}o.tif
PrefixTokenFirst == <<"{", "p", "a", "g", "e", "}", "o", ".", "t", "i", "f">>

\* d/o.{page}
PrefixTokenExt == <<"d", "/", "o", ".", "{", "p", "a", "g", "e", "}">>

\* C:\d\{page}.x.png
PrefixDrive == <<"C", ":", "\\", "d", "\\", "{", "p", "a", "g", "e", "}", ".", "x", ".", "p", "n", "g">>

\* o{page}{x}
PrefixField == <<"o", "{", "p", "a", "g", "e", "}", "{", "x", "}">>

\* o {page}.jpg, given in quotes
PrefixQuoted == <<"\"", "o", " ", "{", "p", "a", "g", "e", "}", ".", "j", "p", "g", "\"">>

\* u
PwdU == <<"u">>

\* u{
PwdBrace == <<"u", "{">>

\* o
PwdO == <<"o">>

\* C:\p
BinPath == <<"C", ":", "\\", "p">>

\* bmp
Bmp == <<"b", "m", "p">>

\* lzw
Lzw == <<"l", "z", "w">>

\* zip
Zip == <<"z", "i", "p">>

\* y
Yes == <<"y">>

\* Pages: 2, with the carriage return of a Windows line end
LinePages2 == <<"P", "a", "g", "e", "s", ":", " ", "2", "\r">>

\* Pages: 0
LinePages0 == <<"P", "a", "g", "e", "s", ":", " ", "0">>

\* Pages: -1
LinePagesNeg == <<"P", "a", "g", "e", "s", ":", " ", "-", "1">>

\* Pages: x
LinePagesWord == <<"P", "a", "g", "e", "s", ":", " ", "x">>

\* Pages:
LinePagesEmpty == <<"P", "a", "g", "e", "s", ":">>

\* T: a: b
LineTitle == <<"T", ":", " ", "a", ":", " ", "b">>

\* T:c
LineTitleAgain == <<"T", ":", "c">>

\* T and an invalid byte, no colon
LineNoColon == <<"T", BadByte>>

\* a blank line: a space, a form feed and a carriage return
LineBlank == <<" ", "\f", "\r">>

\* Pages: 1_0
LinePagesGrouped == <<"P", "a", "g", "e", "s", ":", " ", "1", "_", "0">>

\* Pages: and a form feed
LinePagesFeed == <<"P", "a", "g", "e", "s", ":", "\f">>

\* T, U+0085 and x between no-break spaces, then y after U+0085
LineTitleSpaced == <<"U+00A0", "T", "U+0085", "x", "U+00A0", ":", "U+0085", "y">>

MaxPages == 3
MaxOffset == 2
MaxZfill == 3
MaxLines == 3

\* the output of the metadata tool for a document of n pages
PagesOutput(n) == PAGEKEY \o <<":", " ">> \o Str(n) \o <<"\r", "\n">>

InfoLines == {LinePages2, LinePages0, LinePagesNeg, LinePagesWord, LinePagesEmpty,
              LineTitle, LineTitleAgain, LineNoColon, LineBlank, LinePagesGrouped,
              LinePagesFeed, LineTitleSpaced}

\* every output of at most MaxLines of these lines
InfoOutputs ==
    {Join(<<"\n">>, ls) : ls \in UNION {[1..k -> InfoLines] : k \in 0..MaxLines}}

\* the defaults of convert (lines 59-64)
DefaultArgs ==
    [source_path |-> SrcPlain, output_path_prefix |-> PrefixToken,
     img_format |-> Tiff, dpi |-> 300, user_password |-> None,
     owner_password |-> None, grayscale |-> FALSE, tiff_compression |-> None,
     page_num |-> FALSE, page_num_offset |-> None, page_num_zfill |-> None,
     poppler_bin_path |-> None]

\* the defaults of pdfinfo (lines 166-168)
DefaultInfoArgs ==
    [source_path |-> SrcPlain, user_password |-> None, owner_password |-> None,
     raw_dates |-> PyBool(FALSE), timeout |-> None, poppler_bin_path |-> None]

\* offsets: none, below -1, -1, 0, small ones, and one that gives two digits
Offsets == {None} \cup {PyInt(k) : k \in (-2..MaxOffset) \cup {MaxOffset + 7}}
Zfills == {None} \cup {PyInt(k) : k \in 0..MaxZfill}

\* calls of convert that vary the page numbering
LabelCalls ==
    {[args |-> [DefaultArgs EXCEPT !.output_path_prefix = p, !.page_num = n,
                                   !.page_num_offset = o, !.page_num_zfill = z],
      stdout |-> PagesOutput(k)] :
        p \in {PrefixToken, PrefixTokenFirst}, n \in BOOLEAN, o \in Offsets,
        z \in Zfills, k \in 0..MaxPages}

\* calls of convert that vary the options of the command
OptionCalls ==
    {[args |-> [DefaultArgs EXCEPT !.img_format = f, !.tiff_compression = c,
                                   !.grayscale = g, !.user_password = u,
                                   !.owner_password = o, !.dpi = d,
                                   !.poppler_bin_path = b],
      stdout |-> PagesOutput(k)] :
        f \in ExtKeys \cup {Bmp}, c \in {None, PyStr(Lzw), PyStr(Zip)},
        g \in BOOLEAN, u \in {None, PyStr(<<>>), PyStr(PwdU), PyStr(PwdBrace)},
        o \in {None, PyStr(PwdO)}, d \in {72, 300}, b \in {None, PyStr(BinPath)},
        k \in 1..2}

\* calls of convert that vary the paths
PathCalls ==
    {[args |-> [DefaultArgs EXCEPT !.source_path = s, !.output_path_prefix = p,
                                   !.page_num = n],
      stdout |-> PagesOutput(k)] :
        s \in {SrcPlain, SrcQuoted, SrcPageToken, SrcField, SrcBrace},
        p \in {PrefixToken, PrefixBare, PrefixExt, PrefixTokenFirst, PrefixTokenExt,
               PrefixDrive, PrefixField, PrefixQuoted},
        n \in BOOLEAN, k \in 1..2}

\* calls of convert on tool outputs without a page count
FailingCalls ==
    {[args |-> DefaultArgs, stdout |-> d] :
        d \in {<<>>, LinePagesEmpty, LinePagesWord, LineTitle}}

ConvertCalls == LabelCalls \cup OptionCalls \cup PathCalls \cup FailingCalls

\* calls of pdfinfo that vary the tool output
OutputCalls == {[iargs |-> DefaultInfoArgs, stdout |-> d] : d \in InfoOutputs}

\* calls of pdfinfo that vary the arguments
SwitchCalls ==
    {[iargs |-> [source_path |-> s, user_password |-> u, owner_password |-> o,
                 raw_dates |-> r, timeout |-> t, poppler_bin_path |-> b],
      stdout |-> d] :
        s \in {SrcPlain, SrcQuoted},
        u \in {None, PyStr(<<>>), PyStr(PwdU), PyInt(7)},
        o \in {None, PyStr(PwdO)},
        r \in {PyBool(FALSE), PyBool(TRUE), PyStr(Yes)},
        t \in {None, PyInt(5)}, b \in {None, PyStr(BinPath)},
        d \in {PagesOutput(2), <<>>}}

InfoCalls == OutputCalls \cup SwitchCalls

(***************************************************************************)
(* The state                                                               *)
(***************************************************************************)
VARIABLES
    op,          \* the public function called: "convert" or "pdfinfo"
    args,        \* the arguments of convert
    iargs,       \* the arguments of the call of pdfinfo
    stdout,      \* what the metadata tool writes for the source
    pc,          \* where the call is
    procs,       \* the child processes spawned so far, in order
    data,        \* the local data of pdfinfo: bound or not, and its bytes
    info,        \* the local info of pdfinfo after lines 205-207
    result,      \* what pdfinfo returned
    info_err,    \* the exception that left pdfinfo
    err,         \* the exception that left the public function
    prep,        \* pages, ext, output_path and the command template of convert
    index,       \* the loop variable of convert
    labels,      \* fill['page'] of each turn of the loop
    converted    \* the list convert builds and returns

vars == <<op, args, iargs, stdout, pc, procs, data, info, result, info_err, err,
          prep, index, labels, converted>>

Unbound == [bound |-> FALSE, v |-> <<>>]
NoPrep == [pages |-> 0, ext |-> <<>>, output_path |-> <<>>, template |-> <<>>]

Start ==
    /\ procs = <<>>
    /\ data = Unbound
    /\ info = EmptyDict
    /\ result = EmptyDict
    /\ info_err = NoError
    /\ err = NoError
    /\ prep = NoPrep
    /\ index = 0
    /\ labels = <<>>
    /\ converted = <<>>

Init ==
    /\ Start
    /\ \/ \E c \in ConvertCalls :
            /\ op = "convert"
            /\ args = c.args
            /\ iargs = DefaultInfoArgs
            /\ stdout = c.stdout
            /\ pc = "convert"
       \/ \E c \in InfoCalls :
            /\ op = "pdfinfo"
            /\ args = DefaultArgs
            /\ iargs = c.iargs
            /\ stdout = c.stdout
            /\ pc = "pdfinfo"

(***************************************************************************)
(* The steps                                                               *)
(***************************************************************************)
\* _getprocess(command): the child runs; nothing waits for it here
GetProcess(tool, command) == [tool |-> tool, command |-> command, state |-> "running"]

\* an exception leaves pdfinfo, and convert when convert called it
PdfinfoRaise(e) ==
    /\ info_err' = e
    /\ pc' = IF op = "convert" THEN ConvertOnRaise(e).pc ELSE "raised"
    /\ err' = IF op = "convert" THEN ConvertOnRaise(e).err ELSE e

\* convert, lines 132-135: the source path is quoted and pdfinfo is called
ConvertBegin ==
    /\ pc = "convert"
    /\ iargs' = [source_path |-> GetQuotePath(args.source_path),
                 user_password |-> args.user_password,
                 owner_password |-> args.owner_password,
                 raw_dates |-> PyBool(FALSE), timeout |-> None,
                 poppler_bin_path |-> args.poppler_bin_path]
    /\ pc' = "pdfinfo"
    /\ UNCHANGED <<op, args, stdout, procs, data, info, result, info_err, err,
                   prep, index, labels, converted>>

\* pdfinfo, lines 194-202: the command is built and the tool spawned
PdfinfoSpawn ==
    /\ pc = "pdfinfo"
    /\ procs' = Append(procs, GetProcess("pdfinfo", PdfinfoCommand(iargs)))
    /\ pc' = "communicate"
    /\ UNCHANGED <<op, args, iargs, stdout, data, info, result, info_err, err,
                   prep, index, labels, converted>>

\* pdfinfo, line 203: the tool ends in time and its output is read
PdfinfoCommunicate ==
    /\ pc = "communicate"
    /\ procs' = [procs EXCEPT ![Len(procs)].state = "exited"]
    /\ data' = [bound |-> TRUE, v |-> stdout]
    /\ pc' = "parse"
    /\ UNCHANGED <<op, args, iargs, stdout, info, result, info_err, err,
                   prep, index, labels, converted>>

\* pdfinfo, lines 203-204: the timeout expires and the tool is killed;
\* data stays unbound
PdfinfoTimeout ==
    /\ pc = "communicate"
    /\ iargs.timeout.t # "none"
    /\ procs' = [procs EXCEPT ![Len(procs)].state = "killed"]
    /\ pc' = "parse"
    /\ UNCHANGED <<op, args, iargs, stdout, data, info, result, info_err, err,
                   prep, index, labels, converted>>

\* pdfinfo, lines 205-207: the output is parsed; reading the unbound data
\* raises UnboundLocalError
PdfinfoParse ==
    /\ pc = "parse"
    /\ IF data.bound
       THEN /\ info' = ParseInfo(data.v)
            /\ pc' = "pages"
            /\ UNCHANGED <<info_err, err>>
       ELSE /\ PdfinfoRaise("UnboundLocalError")
            /\ UNCHANGED info
    /\ UNCHANGED <<op, args, iargs, stdout, procs, data, result, prep, index,
                   labels, converted>>

\* pdfinfo, lines 208-210: the page count is converted and info returned
PdfinfoReturn ==
    /\ pc = "pages"
    /\ LET r == PdfinfoResult(info)
       IN  IF r.err = NoError
           THEN /\ result' = r.info
                /\ pc' = IF op = "convert" THEN "prepare" ELSE "returned"
                /\ UNCHANGED <<info_err, err>>
           ELSE /\ PdfinfoRaise(r.err)
                /\ UNCHANGED result
    /\ UNCHANGED <<op, args, iargs, stdout, procs, data, info, prep, index,
                   labels, converted>>

\* convert, lines 136-151: the page count, the output stem and the command
\* template
ConvertPrepare ==
    /\ pc = "prepare"
    /\ LET stem == StripExtension(args.output_path_prefix)
           output_path == GetQuotePath(stem.out)
       IN  IF stem.err = NoError
           THEN /\ prep' = [pages |-> result[PAGEKEY], ext |-> ConvertExt(args),
                            output_path |-> output_path,
                            template |-> Join(Space,
                                ConvertParams(args, iargs.source_path, output_path))]
                /\ pc' = "loop"
                /\ UNCHANGED err
           ELSE /\ pc' = "raised"
                /\ err' = stem.err
                /\ UNCHANGED prep
    /\ UNCHANGED <<op, args, iargs, stdout, procs, data, info, result, info_err,
                   index, labels, converted>>

\* convert, lines 152-162: one turn of the loop
ConvertPage ==
    /\ pc = "loop"
    /\ index < prep.pages
    /\ LET fill == Fill(args, prep.pages, index)
           command == Format(prep.template, fill)
       IN  IF command.err = NoError
           THEN /\ procs' = Append(procs, GetProcess("pdftoppm", command.out))
                /\ converted' = Append(converted,
                                       ConvertedPath(prep.output_path, fill, prep.ext))
                /\ labels' = Append(labels, fill[PageName])
                /\ index' = index + 1
                /\ UNCHANGED <<pc, err>>
           ELSE /\ pc' = "raised"
                /\ err' = command.err
                /\ UNCHANGED <<procs, converted, labels, index>>
    /\ UNCHANGED <<op, args, iargs, stdout, data, info, result, info_err, prep>>

\* convert, line 163: the loop is over and the list is returned
ConvertReturn ==
    /\ pc = "loop"
    /\ index >= prep.pages
    /\ pc' = "returned"
    /\ UNCHANGED <<op, args, iargs, stdout, procs, data, info, result, info_err,
                   err, prep, index, labels, converted>>

\* a rendering child ends by itself
RenderExit ==
    \E i \in 1..Len(procs) :
        /\ procs[i].tool = "pdftoppm"
        /\ procs[i].state = "running"
        /\ procs' = [procs EXCEPT ![i].state = "exited"]
        /\ UNCHANGED <<op, args, iargs, stdout, pc, data, info, result, info_err,
                       err, prep, index, labels, converted>>

Next ==
    \/ ConvertBegin
    \/ PdfinfoSpawn
    \/ PdfinfoCommunicate
    \/ PdfinfoTimeout
    \/ PdfinfoParse
    \/ PdfinfoReturn
    \/ ConvertPrepare
    \/ ConvertPage
    \/ ConvertReturn
    \/ RenderExit

Spec == Init /\ [][Next]_vars

(***************************************************************************)
(* What the claims speak of, stated apart from the operators above         *)
(***************************************************************************)
Terminated == pc \in {"returned", "raised"}

\* pdfinfo has returned its mapping
InfoReturned == PAGEKEY \in DOMAIN result

\* the rendering children, as indices of procs
Renderers == {i \in 1..Len(procs) : procs[i].tool = "pdftoppm"}

\* the number a string of digits writes, read from the right
RECURSIVE NumberOf(_)
NumberOf(s) == IF s = <<>> THEN 0
               ELSE 10 * NumberOf(SubSeq(s, 1, Len(s) - 1)) + DigitVal(s[Len(s)])

AllDigits(s) == \A k \in 1..Len(s) : s[k] \in DigitSet

\* how many digits the natural number n takes
DigitCount(n) == CHOOSE d \in 1..6 : n < 10^d /\ (d = 1 \/ n >= 10^(d - 1))

Max(a, b) == IF a >= b THEN a ELSE b

\* s with every occurrence of token replaced by by
RECURSIVE ReplaceAll(_, _, _)
ReplaceAll(s, token, by) ==
    IF ~Contains(s, token) THEN s
    ELSE LET i == CHOOSE i \in 1..Len(s) :
                    /\ SubSeq(s, i, i + Len(token) - 1) = token
                    /\ \A j \in 1..(i - 1) : SubSeq(s, j, j + Len(token) - 1) # token
         IN  SubSeq(s, 1, i - 1) \o by
             \o ReplaceAll(SubSeq(s, i + Len(token), Len(s)), token, by)

\* the only braces of s are those of '{page}' tokens
BracesOnlyInTokens(s) ==
    LET rest == ReplaceAll(s, PageToken, <<>>)
    IN  \A k \in 1..Len(rest) : rest[k] \notin {"{", "}"}

\* the file name without its trailing extension, a '{page}' in the
\* extension kept, and '{page}' added at the end when the name has none
StemName(file) ==
    LET dots == {k \in 2..Len(file) :
                    file[k] = "." /\ \E j \in 1..(k - 1) : file[j] # "."}
        cut == IF dots = {} THEN Len(file) + 1
               ELSE CHOOSE k \in dots : \A j \in dots : j <= k
        kept == IF Contains(SubSeq(file, cut, Len(file)), PageToken) THEN file
                ELSE SubSeq(file, 1, cut - 1)
    IN  IF Contains(kept, PageToken) THEN kept ELSE kept \o PageToken

\* the output stem of a prefix: its folder and the stem of its file name,
\* without quotes
ExpectedStem(prefix) ==
    Strip(JoinPath(Dirname(prefix), StemName(Basename(prefix))), {Quote})

\* the page number of page i as the claims describe it
ExpectedNumber(a, i) ==
    IF a.page_num_offset.t # "none" /\ a.page_num_offset.v >= -1
    THEN i + a.page_num_offset.v
    ELSE i

\* label is the page label of page i of n pages
IsLabel(label, a, n, i) ==
    IF n = 1 /\ ~a.page_num THEN label = <<>>
    ELSE /\ AllDigits(label)
         /\ NumberOf(label) = ExpectedNumber(a, i)
         /\ Len(label) = Max(DigitCount(ExpectedNumber(a, i)),
                             IF a.page_num_zfill.t # "none" THEN a.page_num_zfill.v
                             ELSE 0)

\* the path of a page: the stem with the label at its tokens, a period and
\* the extension
ExpectedPath(a, label) ==
    ReplaceAll(ExpectedStem(a.output_path_prefix), PageToken, label)
    \o <<".">> \o (IF a.img_format \in ExtKeys THEN EXT(a.img_format) ELSE <<"p", "p", "m">>)

(***************************************************************************)
(* The claims                                                              *)
(***************************************************************************)
\* C1: for a source of N >= 1 pages, every format and every output prefix,
\* convert returns a list of exactly N paths, the k-th the path of page k.
C1_ReturnsOnePathPerPage ==
    (op = "convert" /\ InfoReturned /\ result[PAGEKEY] >= 1 /\ Terminated) =>
        /\ pc = "returned"
        /\ Len(converted) = result[PAGEKEY]
        /\ \A k \in 1..Len(converted) :
              \E label \in {labels[k]} :
                  /\ IsLabel(label, args, result[PAGEKEY], k)
                  /\ converted[k] = ExpectedPath(args, label)

\* C2: for every output prefix convert prepares the output stem without
\* error: the extension of the file name is removed, a '{page}' in the
\* extension is kept, and each returned path is the stem with the page label
\* at '{page}' (at the end of the name when the prefix has no '{page}'),
\* a period and the extension, without quotes.
C2_StemPreparedForEveryPrefix ==
    (op = "convert" /\ InfoReturned /\ pc \in {"loop", "returned", "raised"}) =>
        /\ err # "NameError"
        /\ prep.output_path = GetQuotePath(ExpectedStem(args.output_path_prefix))
        /\ \A k \in 1..Len(converted) : converted[k] = ExpectedPath(args, labels[k])

\* C3: the label of page i of N pages is empty when N = 1 and page_num is
\* false; otherwise it writes i + offset (offset given and >= -1, else i),
\* padded with zeros to page_num_zfill digits; it is what stands at the
\* '{page}' of the i-th returned path.  N = 3 with offset -1 gives 0, 1, 2
\* and N = 3 with zfill 3 gives 001, 002, 003.
C3_PageLabels ==
    /\ \A i \in 1..Len(labels) :
          /\ IsLabel(labels[i], args, prep.pages, i)
          /\ BracesOnlyInTokens(args.output_path_prefix) =>
                converted[i] = ExpectedPath(args, labels[i])
    /\ Len(labels) = Len(converted)
    /\ (pc = "returned" /\ op = "convert") => Len(labels) = Max(prep.pages, 0)
    /\ (pc = "returned" /\ op = "convert" /\ prep.pages = 3
            /\ args.page_num_offset = PyInt(-1) /\ args.page_num_zfill.t = "none") =>
          labels = << <<"0">>, <<"1">>, <<"2">> >>
    /\ (pc = "returned" /\ op = "convert" /\ prep.pages = 3
            /\ args.page_num_offset.t = "none" /\ args.page_num_zfill = PyInt(3)) =>
          labels = << <<"0", "0", "1">>, <<"0", "0", "2">>, <<"0", "0", "3">> >>

\* C3 witness: three pages were labelled with offset -1 and padding 3
C3_Witness ==
    /\ pc = "returned"
    /\ args.page_num_offset = PyInt(-1)
    /\ args.page_num_zfill = PyInt(3)
    /\ labels = << <<"0", "0", "0">>, <<"0", "0", "1">>, <<"0", "0", "2">> >>
    /\ converted[3] = <<"o", "0", "0", "2", ".", "t", "i", "f">>

\* the command the claims give for page k with its label
ExpectedRenderCommand(a, k, label) ==
    Join(Space,
         <<GetCommandPath(Pdftoppm, a.poppler_bin_path), Dash(<<"r">>), Str(a.dpi)>>
         \o (IF Truthy(a.user_password) THEN <<Upw, a.user_password.v>> ELSE <<>>)
         \o (IF Truthy(a.owner_password) THEN <<Opw, a.owner_password.v>> ELSE <<>>)
         \o (IF a.img_format \in ExtKeys THEN <<Dash(a.img_format)>> ELSE <<>>)
         \o (IF a.img_format # Tiff THEN <<>>
             ELSE IF a.tiff_compression.t = "str"
                     /\ a.tiff_compression.v \in TIFFCOMPRESSION
             THEN <<COMPSWITCH, a.tiff_compression.v>>
             ELSE <<COMPSWITCH, <<"n", "o", "n", "e">> >>)
         \o (IF a.grayscale THEN <<Dash(<<"g", "r", "a", "y">>)>> ELSE <<>>)
         \o << <<"-", "a", "a">>, <<"y", "e", "s">>,
               <<"-", "a", "a", "V", "e", "c", "t", "o", "r">>, <<"y", "e", "s">>,
               <<"-", "s", "i", "n", "g", "l", "e", "f", "i", "l", "e">>,
               <<"-", "f">>, Str(k), <<"-", "l">>, Str(k) >>
         \o <<GetQuotePath(a.source_path),
              GetQuotePath(ReplaceAll(ExpectedStem(a.output_path_prefix),
                                      PageToken, label))>>)

\* C4: for every page k of 1..N and every source path, password and option
\* value, braces included, the command run for page k is the tool, -r dpi,
\* the password switches, the format switch, the compression switch, -gray,
\* the fixed switches, -f k -l k, the quoted source and the quoted output
\* prefix with the label; source path and passwords stand in it unchanged.
C4_RenderCommandOfEveryPage ==
    (op = "convert" /\ Terminated /\ InfoReturned /\ err # "NameError") =>
        /\ Cardinality(Renderers) = Max(result[PAGEKEY], 0)
        /\ \A k \in 1..Len(labels) :
              procs[k + 1].command = ExpectedRenderCommand(args, k, labels[k])

\* the text of a number without its sign
Unsigned(s) == IF s # <<>> /\ s[1] \in {"+", "-"} THEN SubSeq(s, 2, Len(s)) ELSE s

\* a number as int() reads it: an optional sign, then digits, where a
\* single underscore may stand between two digits
IsNumber(s) ==
    LET body == Unsigned(s)
    IN  /\ body # <<>>
        /\ \A k \in 1..Len(body) :
              \/ body[k] \in DigitSet
              \/ /\ body[k] = "_"
                 /\ 1 < k /\ k < Len(body)
                 /\ body[k - 1] \in DigitSet /\ body[k + 1] \in DigitSet

NumberValue(s) ==
    LET n == NumberOf(SelectSeq(Unsigned(s), LAMBDA c : c # "_"))
    IN  IF s[1] = "-" THEN -n ELSE n

\* pdfinfo has got past lines 208-210 with the output read
PagesDecided == data.bound /\ (info_err # NoError \/ InfoReturned)

\* the parsed output has a Pages field that is not empty
PagesFieldGiven == PAGEKEY \in DOMAIN info /\ Len(info[PAGEKEY]) > 0

\* C5 as stated: whenever pdfinfo returns a mapping its Pages entry is an
\* integer >= 1, and it fails when the Pages field is missing, empty, zero,
\* negative or not a number.
C5_PagesPositive ==
    /\ InfoReturned => result[PAGEKEY] >= 1
    /\ (PagesDecided /\ (~PagesFieldGiven \/ ~IsNumber(info[PAGEKEY])
                         \/ NumberValue(info[PAGEKEY]) < 1)) => info_err # NoError

\* C5 amended: whenever pdfinfo returns a mapping its Pages entry is the
\* integer the Pages field writes, zero and negative ones included; it
\* fails with the missing-page-count error when the field is missing or
\* empty and with ValueError when the field is not a number.
C5_PagesInteger ==
    /\ InfoReturned =>
          /\ result[PAGEKEY] \in Int
          /\ PagesFieldGiven /\ IsNumber(info[PAGEKEY])
          /\ result[PAGEKEY] = NumberValue(info[PAGEKEY])
    /\ PagesDecided =>
          IF ~PagesFieldGiven THEN info_err = MissingPages
          ELSE IF ~IsNumber(info[PAGEKEY]) THEN info_err = "ValueError"
          ELSE info_err = NoError /\ InfoReturned

\* C5 witness: pdfinfo returned a page count of zero
C5_Witness ==
    /\ op = "pdfinfo"
    /\ pc = "returned"
    /\ result[PAGEKEY] = 0

\* C6: when the metadata tool does not end within the timeout it is killed
\* and pdfinfo fails with the missing-page-count error.
C6_TimeoutRaisesMissingPages ==
    (procs # <<>> /\ procs[1].state = "killed" /\ Terminated) =>
        /\ pc = "raised"
        /\ info_err = MissingPages

\* C7: when pdfinfo fails inside convert, convert fails with the same
\* error, no rendering process is ever spawned and no list is returned.
C7_InfoFailureAbortsConvert ==
    (op = "convert" /\ info_err # NoError) =>
        /\ pc = "raised"
        /\ err = info_err
        /\ Renderers = {}
        /\ converted = <<>>

\* C7 witness: pdfinfo raised the missing-page-count error inside convert
C7_Witness ==
    /\ op = "convert"
    /\ info_err = MissingPages
    /\ pc = "raised"
    /\ Len(procs) = 1

\* C8 as stated: the command of pdfinfo is the tool, -upw and the password
\* iff user_password is truthy, -opw and the password iff owner_password is
\* truthy, -rawdates alone iff raw_dates is truthy, and the quoted source
\* path as the last token.
C8_SourcePathLast ==
    (procs # <<>>) =>
        procs[1].command =
            Join(Space,
                 <<GetCommandPath(Pdfinfo, iargs.poppler_bin_path)>>
                 \o (IF Truthy(iargs.user_password)
                     THEN <<Upw, iargs.user_password.v>> ELSE <<>>)
                 \o (IF Truthy(iargs.owner_password)
                     THEN <<Opw, iargs.owner_password.v>> ELSE <<>>)
                 \o (IF Truthy(iargs.raw_dates) THEN <<Rawdates>> ELSE <<>>)
                 \o <<GetQuotePath(iargs.source_path)>>)

\* what one argument adds to the command: nothing when it is falsy, the
\* switch and the argument when it is a string, the switch alone otherwise
ExpectedSwitch(switch, arg) ==
    IF ~Truthy(arg) THEN <<>>
    ELSE IF arg.t = "str" THEN <<switch, arg.v>>
    ELSE <<switch>>

\* C8 amended: the command of pdfinfo is the tool, the quoted source path as
\* the second token, then for user_password, owner_password and raw_dates in
\* this order -upw, -opw and -rawdates, each iff its argument is truthy and
\* followed by the argument iff that is a string (so -rawdates stands alone
\* for raw_dates = True).
C8_SourcePathSecond ==
    (procs # <<>>) =>
        procs[1].command =
            Join(Space,
                 <<GetCommandPath(Pdfinfo, iargs.poppler_bin_path),
                   <<Quote>> \o Strip(iargs.source_path, {Quote}) \o <<Quote>> >>
                 \o ExpectedSwitch(Upw, iargs.user_password)
                 \o ExpectedSwitch(Opw, iargs.owner_password)
                 \o ExpectedSwitch(Rawdates, iargs.raw_dates))

\* C8 witness: pdfinfo.exe "a.pdf" -upw u -opw o -rawdates was run
C8_Witness ==
    /\ op = "pdfinfo"
    /\ procs # <<>>
    /\ iargs.user_password = PyStr(PwdU)
    /\ iargs.owner_password = PyStr(PwdO)
    /\ iargs.raw_dates = PyBool(TRUE)
    /\ procs[1].command =
          Pdfinfo \o <<".", "e", "x", "e", " ">> \o <<Quote>> \o SrcPlain \o <<Quote>>
          \o <<" ">> \o Upw \o <<" ", "u", " ">> \o Opw \o <<" ", "o", " ">> \o Rawdates

\* the lines of the decoded output that are not blank
OutputLines ==
    LET text == SelectSeq(stdout, LAMBDA b : b # BadByte)
        breaks == <<0>> \o SelectSeq([k \in 1..Len(text) |-> IF text[k] = "\n" THEN k ELSE 0],
                                     LAMBDA k : k # 0) \o <<Len(text) + 1>>
        lines == [n \in 1..(Len(breaks) - 1) |->
                     SubSeq(text, breaks[n] + 1, breaks[n + 1] - 1)]
    IN  SelectSeq(lines, LAMBDA l : \E k \in 1..Len(l) : l[k] \notin Whitespace)

\* where the first colon of a line is; past its end when it has none
FirstColon(l) ==
    IF \E k \in 1..Len(l) : l[k] = ":"
    THEN CHOOSE k \in 1..Len(l) : l[k] = ":" /\ \A j \in 1..(k - 1) : l[j] # ":"
    ELSE Len(l) + 1

KeyOf(l) == Strip(SubSeq(l, 1, FirstColon(l) - 1), Whitespace)
ValueOf(l) == Strip(SubSeq(l, FirstColon(l) + 1, Len(l)), Whitespace)

\* the last non-blank line of the output with the key
LastLineOf(key) ==
    OutputLines[CHOOSE n \in 1..Len(OutputLines) :
                    /\ KeyOf(OutputLines[n]) = key
                    /\ \A m \in (n + 1)..Len(OutputLines) : KeyOf(OutputLines[m]) # key]

\* value == text for a value of any type: an integer never equals a text
IsText(value, text) == ToString(value) = ToString(text)

\* C9 as stated: the mapping pdfinfo returns for an output with a Pages line
\* has exactly one entry per distinct key of the non-blank lines, and the
\* value of every entry, Pages included, is the trimmed text after the first
\* colon of the last line with that key.
C9_ReturnedMappingAllText ==
    InfoReturned =>
        /\ DOMAIN result = {KeyOf(OutputLines[n]) : n \in 1..Len(OutputLines)}
        /\ \A key \in DOMAIN result : IsText(result[key], ValueOf(LastLineOf(key)))

\* C9, amended: whenever pdfinfo returns a mapping, it has exactly one entry
\* per distinct key of the non-blank lines; the key is the text before the
\* first colon, trimmed; the value of every entry other than Pages is the
\* whole text after the first colon, trimmed, of the last line with that
\* key; the Pages entry is the integer that text writes; blank lines add
\* nothing.  The mapping of lines 205-207 holds the text for every key.
C9_ParsedMapping ==
    /\ (data.bound /\ pc # "parse") =>
          /\ DOMAIN info = {KeyOf(OutputLines[n]) : n \in 1..Len(OutputLines)}
          /\ \A key \in DOMAIN info : info[key] = ValueOf(LastLineOf(key))
    /\ InfoReturned =>
          /\ DOMAIN result = {KeyOf(OutputLines[n]) : n \in 1..Len(OutputLines)}
          /\ \A key \in DOMAIN result \ {PAGEKEY} :
                result[key] = ValueOf(LastLineOf(key))
          /\ IsNumber(ValueOf(LastLineOf(PAGEKEY)))
          /\ result[PAGEKEY] = NumberValue(ValueOf(LastLineOf(PAGEKEY)))

\* C9 witness: pdfinfo returned for an output with two lines of the key T,
\* the later one with a colon in its value, and a Pages line
C9_Witness ==
    /\ op = "pdfinfo"
    /\ pc = "returned"
    /\ stdout = Join(<<"\n">>, <<LineTitleAgain, LineTitle, LinePages2>>)
    /\ result[<<"T">>] = <<"a", ":", " ", "b">>
    /\ result[PAGEKEY] = 2

\* C10: at most one rendering child is alive at any time, and the child of
\* the last page has ended when convert returns its list.
C10_OneRendererAtATime ==
    /\ Cardinality({i \in Renderers : procs[i].state = "running"}) <= 1
    /\ pc = "returned" => \A i \in Renderers : procs[i].state # "running"

=============================================================================
